---- MODULE Spec2Model ----
(***************************************************************************)
(* Lifecycle of the ClickHouse connections managed by ClickHouseCoreModule *)
(* (nestjs-clickhouse): registration (forRoot / forRootAsync), resolution  *)
(* of the deferred configuration, construction of the client, the liveness *)
(* probe guarded by handleRetry, and onApplicationShutdown.                *)
(*                                                                         *)
(* Modelling conventions                                                   *)
(*  - A JavaScript string is a TLA+ string; a template literal is \o.      *)
(*  - A JavaScript object is a function whose domain is the set of its     *)
(*    defined properties.  A property that is absent or whose value is     *)
(*    undefined is simply not in the domain (destructuring defaults and    *)
(*    the `||` operator treat the two alike).                              *)
(*  - An optional value (an argument that may be undefined, the result of  *)
(*    moduleRef.get) is a sequence of length 0 or 1.                       *)
(***************************************************************************)
EXTENDS Naturals, Integers, Sequences, FiniteSets, TLC

(***************************************************************************)
(* Bounds of the model                                                     *)
(***************************************************************************)
\* largest retryAttempts a configuration supplies explicitly
MaxRetryAttempts == 2
\* longest connection name (in pieces of NamePieces) given to getConnectionToken
MaxNameLen == 2

(***************************************************************************)
(* Program constants                                                       *)
(***************************************************************************)
\* clickhouse.utils.ts, defaults of handleRetry's destructuring
DefaultRetryAttempts == 10
DefaultRetryDelay == 3000
DefaultVerboseRetryLog == FALSE
\* clickhouse.constants (imported); the value of the default connection name
\* is the one the sources document for `name`
DEFAULT_CONNECTION_NAME == "DefaultClickHouseConnection"
CLICKHOUSE_MODULE_OPTIONS == "ClickHouseModuleOptions"

(***************************************************************************)
(* Objects                                                                 *)
(***************************************************************************)
EmptyObject == <<>>

\* the objects that either lack property f or hold one of vals in it
OptionalField(f, vals) == {EmptyObject} \cup {f :> v : v \in vals}

\* object rest: `const { k1, k2, ...rest } = o`
Rest(o, keys) == [f \in (DOMAIN o) \ keys |-> o[f]]

\* object literal built from destructured variables: { k1, k2 } where each
\* variable carries o[k] or undefined
Pick(o, keys) == [f \in (DOMAIN o) \cap keys |-> o[f]]

\* the optional value o.f
Prop(o, f) == IF f \in DOMAIN o THEN <<o[f]>> ELSE <<>>

\* a || b on optional values that are objects or non-empty strings
OrElse(a, b) == IF Len(a) > 0 THEN a ELSE b

\* the fields ClickHouseModuleOptions adds to the vendor's options
OrchestrationFields == {"name", "retryAttempts", "retryDelay", "verboseRetryLog"}
RetryFields == {"retryAttempts", "retryDelay", "verboseRetryLog"}

(***************************************************************************)
(* clickhouse.utils.ts                                                     *)
(***************************************************************************)
\* getConnectionToken(name?): args is the optional argument
getConnectionToken(args) ==
  IF Len(args) = 0 \/ args[1] = DEFAULT_CONNECTION_NAME
  THEN DEFAULT_CONNECTION_NAME
  ELSE args[1] \o "ClickHouseConnection"

\* the closure variables of handleRetry(options): destructuring with defaults
handleRetry(options) ==
  [ connectionName  |-> IF "connectionName" \in DOMAIN options
                        THEN options.connectionName ELSE DEFAULT_CONNECTION_NAME,
    retryAttempts   |-> IF "retryAttempts" \in DOMAIN options
                        THEN options.retryAttempts ELSE DefaultRetryAttempts,
    retryDelay      |-> IF "retryDelay" \in DOMAIN options
                        THEN options.retryDelay ELSE DefaultRetryDelay,
    verboseRetryLog |-> IF "verboseRetryLog" \in DOMAIN options
                        THEN options.verboseRetryLog ELSE DefaultVerboseRetryLog ]

\* variant: the log line counts errors from zero
RetryLogLineZeroBased(retry, message, errorCount) ==
  [ connectionInfo |-> IF retry.connectionName = DEFAULT_CONNECTION_NAME
                       THEN ""
                       ELSE " (" \o retry.connectionName \o ")",
    verboseMessage |-> IF retry.verboseRetryLog
                       THEN " Message: " \o message \o "."
                       ELSE "",
    errorCount     |-> errorCount - 1 ]

\* the line logger.error writes from the delay callback of retry()
RetryLogLine(retry, message, errorCount) ==
  [ connectionInfo |-> IF retry.connectionName = DEFAULT_CONNECTION_NAME
                       THEN ""
                       ELSE " (" \o retry.connectionName \o ")",
    verboseMessage |-> IF retry.verboseRetryLog
                       THEN " Message: " \o message \o "."
                       ELSE "",
    errorCount     |-> errorCount ]

\* variant: retryAttempts bounds the attempts in total, the first one included
ShouldRetryCountingFirst(retry, soFarBefore) ==
  retry.retryAttempts > 0 /\ soFarBefore + 1 < retry.retryAttempts

\* rxjs retry({count, delay}): on the error that makes the error counter
\* soFar, the source is re-subscribed iff count > 0 and the counter before
\* the increment is below count (count <= 0 makes retry the identity)
ShouldRetry(retry, soFarBefore) ==
  retry.retryAttempts > 0 /\ soFarBefore < retry.retryAttempts

(***************************************************************************)
(* clickhouse-core.module.ts: registration                                 *)
(***************************************************************************)
\* forRoot(options): what the connection provider's factory closes over
forRoot(options) ==
  LET connectionName == getConnectionToken(Prop(options, "name"))
  IN [ connectionName |-> connectionName,
       clientOptions  |-> Rest(options, OrchestrationFields),
       retryOptions   |-> ("connectionName" :> connectionName)
                            @@ Pick(options, RetryFields) ]

\* variant: the deferred factory forwards no retry field
forRootAsyncFactoryDroppingRetry(connectionName, moduleOptions) ==
  [ connectionName |-> connectionName,
    clientOptions  |-> Rest(moduleOptions, RetryFields),
    retryOptions   |-> ("connectionName" :> connectionName) ]

\* the connection provider's factory of forRootAsync, applied to the resolved
\* CLICKHOUSE_MODULE_OPTIONS
forRootAsyncFactory(connectionName, moduleOptions) ==
  [ connectionName |-> connectionName,
    clientOptions  |-> Rest(moduleOptions, RetryFields),
    retryOptions   |-> ("connectionName" :> connectionName)
                         @@ Pick(moduleOptions, RetryFields) ]

\* variant: a descriptor without any policy is treated as a direct function
createAsyncOptionsProviderLenient(options) ==
  IF \/ "useFactory" \in DOMAIN options
     \/ DOMAIN options \cap {"useExisting", "useClass"} = {}
  THEN [ provide |-> <<CLICKHOUSE_MODULE_OPTIONS>>,
         policy  |-> "useFactory",
         inject  |-> <<>> ]
  ELSE [ provide |-> <<CLICKHOUSE_MODULE_OPTIONS>>,
         policy  |-> "delegate",
         inject  |-> << OrElse(Prop(options, "useExisting"),
                               Prop(options, "useClass")) >> ]

\* createAsyncOptionsProvider(options): the CLICKHOUSE_MODULE_OPTIONS provider.
\* policy "useFactory" calls options.useFactory; policy "delegate" calls
\* createClickHouseOptions() on the instance injected for inject[1], an
\* optional token (options.useExisting || options.useClass!).  A provider's
\* `provide` is an optional token as well (options.useClass! may be undefined).
\* The dependencies a user lists in options.inject are not modelled.
createAsyncOptionsProvider(options) ==
  IF "useFactory" \in DOMAIN options
  THEN [ provide |-> <<CLICKHOUSE_MODULE_OPTIONS>>,
         policy  |-> "useFactory",
         inject  |-> <<>> ]
  ELSE [ provide |-> <<CLICKHOUSE_MODULE_OPTIONS>>,
         policy  |-> "delegate",
         inject  |-> << OrElse(Prop(options, "useExisting"),
                               Prop(options, "useClass")) >> ]

\* createAsyncProviders(options): the options provider, and a class provider
\* for useClass when neither useExisting nor useFactory is given
createAsyncProviders(options) ==
  IF "useExisting" \in DOMAIN options \/ "useFactory" \in DOMAIN options
  THEN << createAsyncOptionsProvider(options) >>
  ELSE << createAsyncOptionsProvider(options),
          [ provide |-> Prop(options, "useClass"),
            policy  |-> "useClass",
            inject  |-> <<>> ] >>

\* forRootAsync(options): the connection token and the async providers
forRootAsync(options) ==
  [ connectionName |-> getConnectionToken(Prop(options, "name")),
    providers      |-> createAsyncProviders(options) ]

\* the providers of a dynamic module that provide CLICKHOUSE_MODULE_OPTIONS
OptionsProviders(providers) ==
  { i \in DOMAIN providers : providers[i].provide = <<CLICKHOUSE_MODULE_OPTIONS>> }

(***************************************************************************)
(* State                                                                   *)
(***************************************************************************)
\* the registrations (ClickHouseCoreModule instances) of one application
Conns == {"a", "b"}

VARIABLES
  phase,             \* [Conns -> position of the registration's lifecycle]
  registration,      \* [Conns -> [kind, options]] the call that registered it
  connectionName,    \* [Conns -> CLICKHOUSE_CONNECTION_NAME of the instance]
  asyncProviders,    \* [Conns -> providers createAsyncProviders returned]
  moduleOptions,     \* [Conns -> optional resolved CLICKHOUSE_MODULE_OPTIONS]
  policyUsed,        \* [Conns -> policies invoked to resolve the options]
  createClientCalls, \* [Conns -> arguments of the calls of createClient]
  retry,             \* [Conns -> optional closure of handleRetry]
  soFar,             \* [Conns -> error counter of retry()]
  pings,             \* [Conns -> number of client.ping() calls issued]
  failures,          \* [Conns -> number of probes that failed]
  retryLog,          \* [Conns -> lines logger.error wrote]
  waited,            \* [Conns -> delays of the timers that fired]
  fault,             \* [Conns -> optional error the factory surfaced]
  container,         \* instances the host holds: set of [token, client]
  appPhase,          \* "bootstrap" or "shutdown"
  hook,              \* [Conns -> outcome of onApplicationShutdown]
  closeCalls,        \* [Conns -> number of close() calls on its client]
  closeFailed,       \* [Conns -> a close() of its client rejected]
  shutdownLog,       \* lines logger.log wrote during shutdown
  tokenArgs,         \* two optional names given to getConnectionToken
  tokens             \* optional pair of the tokens it returned for them

connVars == <<phase, registration, connectionName, asyncProviders,
              moduleOptions, policyUsed>>
retryVars == <<createClientCalls, retry, soFar, pings, failures, retryLog,
               waited, fault, container>>
shutdownVars == <<appPhase, hook, closeCalls, closeFailed, shutdownLog>>
tokenVars == <<tokenArgs, tokens>>
vars == <<connVars, retryVars, shutdownVars, tokenVars>>

Settled == {"resolved", "rejected", "constructFault", "wiringFault"}

(***************************************************************************)
(* Inputs                                                                  *)
(***************************************************************************)
\* vendor options (ClickHouseClientConfigOptions), passed through opaquely
VendorOptions == ("url" :> "http://localhost:8123") @@ ("database" :> "default")

\* the message of a failed probe (result.error?.message or the thrown error's)
ProbeMessage == "connect ECONNREFUSED"

PingResults == {"success", "failure", "throws"}

\* configurations of the two-connection lifecycle specification
LifecycleOptions ==
  { n @@ r @@ d @@ VendorOptions :
      n \in OptionalField("name", {"logs"}),
      r \in OptionalField("retryAttempts", 0..MaxRetryAttempts) \ {EmptyObject},
      d \in OptionalField("retryDelay", {0, 250}) }

\* configurations of the single-registration wiring specification
WiringOptions ==
  { n @@ r @@ d @@ v @@ VendorOptions :
      n \in OptionalField("name", {"logs", DEFAULT_CONNECTION_NAME}),
      r \in OptionalField("retryAttempts", 0..MaxRetryAttempts),
      d \in OptionalField("retryDelay", {0, 250}),
      v \in OptionalField("verboseRetryLog", {TRUE, FALSE}) }

\* descriptors given to forRootAsync
AsyncOptions ==
  { n @@ f @@ e @@ k :
      n \in OptionalField("name", {"logs"}),
      f \in OptionalField("useFactory", {"optionsFactoryFn"}),
      e \in OptionalField("useExisting", {"ExistingConfigService"}),
      k \in OptionalField("useClass", {"ClickHouseConfigService"}) }

\* the host registers one provider per token: a token is free for c when no
\* other registration holds it
TokenFree(c, token) ==
  \A d \in Conns \ {c} : phase[d] # "unregistered" => connectionName[d] # token

InitLifecycle ==
  /\ phase = [c \in Conns |-> "unregistered"]
  /\ registration = [c \in Conns |-> [kind |-> "none", options |-> EmptyObject]]
  /\ connectionName = [c \in Conns |-> ""]
  /\ asyncProviders = [c \in Conns |-> <<>>]
  /\ moduleOptions = [c \in Conns |-> <<>>]
  /\ policyUsed = [c \in Conns |-> {}]
  /\ createClientCalls = [c \in Conns |-> <<>>]
  /\ retry = [c \in Conns |-> <<>>]
  /\ soFar = [c \in Conns |-> 0]
  /\ pings = [c \in Conns |-> 0]
  /\ failures = [c \in Conns |-> 0]
  /\ retryLog = [c \in Conns |-> <<>>]
  /\ waited = [c \in Conns |-> <<>>]
  /\ fault = [c \in Conns |-> <<>>]
  /\ container = {}
  /\ appPhase = "bootstrap"
  /\ hook = [c \in Conns |-> "notRun"]
  /\ closeCalls = [c \in Conns |-> 0]
  /\ closeFailed = [c \in Conns |-> FALSE]
  /\ shutdownLog = <<>>

Init ==
  /\ InitLifecycle
  /\ tokenArgs = << <<>>, <<>> >>
  /\ tokens = <<>>

(***************************************************************************)
(* Actions: registration and resolution of the configuration               *)
(***************************************************************************)
\* ClickHouseModule.forRoot(options) -> ClickHouseCoreModule.forRoot(options)
ForRoot(c, options) ==
  /\ appPhase = "bootstrap"
  /\ phase[c] = "unregistered"
  /\ registration' = [registration EXCEPT ![c] = [kind |-> "forRoot", options |-> options]]
  /\ connectionName' = [connectionName EXCEPT ![c] = forRoot(options).connectionName]
  /\ phase' = [phase EXCEPT ![c] = "optionsReady"]
  /\ UNCHANGED <<asyncProviders, moduleOptions, policyUsed, retryVars, shutdownVars, tokenVars>>

\* ClickHouseModule.forRootAsync(options) -> ClickHouseCoreModule.forRootAsync
ForRootAsync(c, options) ==
  /\ appPhase = "bootstrap"
  /\ phase[c] = "unregistered"
  /\ registration' = [registration EXCEPT ![c] = [kind |-> "forRootAsync", options |-> options]]
  /\ connectionName' = [connectionName EXCEPT ![c] = forRootAsync(options).connectionName]
  /\ asyncProviders' = [asyncProviders EXCEPT ![c] = forRootAsync(options).providers]
  /\ phase' = [phase EXCEPT ![c] = "registered"]
  /\ UNCHANGED <<moduleOptions, policyUsed, retryVars, shutdownVars, tokenVars>>

\* The host resolves the CLICKHOUSE_MODULE_OPTIONS provider of a deferred
\* registration, which the connection provider injects.  `produced` is what
\* the user's function or delegate returns.  A delegate provider whose
\* injection token is undefined cannot be resolved: the host either refuses
\* the token or injects nothing and the method call faults (hostError).
ResolveModuleOptions(c, produced, hostError) ==
  /\ appPhase = "bootstrap"
  /\ phase[c] = "registered"
  /\ \E i \in OptionsProviders(asyncProviders[c]) :
       LET provider == asyncProviders[c][i] IN
       IF provider.policy = "delegate" /\ provider.inject[1] = <<>>
       THEN /\ phase' = [phase EXCEPT ![c] = "wiringFault"]
            /\ fault' = [fault EXCEPT ![c] = <<hostError>>]
            /\ UNCHANGED <<moduleOptions, policyUsed>>
       ELSE /\ phase' = [phase EXCEPT ![c] = "optionsReady"]
            /\ moduleOptions' = [moduleOptions EXCEPT ![c] = <<produced>>]
            /\ policyUsed' = [policyUsed EXCEPT ![c] = @ \cup {provider.policy}]
            /\ UNCHANGED fault
  /\ UNCHANGED <<registration, connectionName, asyncProviders, createClientCalls,
                 retry, soFar, pings, failures, retryLog, waited, container,
                 shutdownVars, tokenVars>>

(***************************************************************************)
(* Actions: createClickHouseClient and the retry loop                      *)
(***************************************************************************)
\* variant: createClient runs inside the deferred observable, so that a fault
\* it throws is an error handled by retry()
createClickHouseClientDeferred(c, clientOptions, retryOptions, createThrows) ==
  /\ createClientCalls' = [createClientCalls EXCEPT ![c] = Append(@, clientOptions)]
  /\ retry' = [retry EXCEPT ![c] = <<handleRetry(retryOptions)>>]
  /\ IF createThrows
     THEN IF ShouldRetry(handleRetry(retryOptions), 0)
          THEN /\ phase' = [phase EXCEPT ![c] = "waiting"]
               /\ soFar' = [soFar EXCEPT ![c] = 1]
               /\ retryLog' = [retryLog EXCEPT ![c] =
                     Append(@, RetryLogLine(handleRetry(retryOptions),
                                            "createClient threw", 1))]
               /\ UNCHANGED <<fault, pings>>
          ELSE /\ phase' = [phase EXCEPT ![c] = "constructFault"]
               /\ fault' = [fault EXCEPT ![c] = <<"createClient threw">>]
               /\ UNCHANGED <<soFar, retryLog, pings>>
     ELSE /\ phase' = [phase EXCEPT ![c] = "pinging"]
          /\ pings' = [pings EXCEPT ![c] = 1]
          /\ UNCHANGED <<fault, soFar, retryLog>>
  /\ UNCHANGED <<failures, waited, container>>

\* createClickHouseClient(clientOptions, retryOptions): createClient runs
\* first, outside the deferred observable; lastValueFrom then subscribes, so
\* the first probe is issued in the same call
createClickHouseClient(c, clientOptions, retryOptions, createThrows) ==
  /\ createClientCalls' = [createClientCalls EXCEPT ![c] = Append(@, clientOptions)]
  /\ IF createThrows
     THEN /\ phase' = [phase EXCEPT ![c] = "constructFault"]
          /\ fault' = [fault EXCEPT ![c] = <<"createClient threw">>]
          /\ UNCHANGED <<retry, pings>>
     ELSE /\ phase' = [phase EXCEPT ![c] = "pinging"]
          /\ retry' = [retry EXCEPT ![c] = <<handleRetry(retryOptions)>>]
          /\ pings' = [pings EXCEPT ![c] = 1]
          /\ UNCHANGED fault
  /\ UNCHANGED <<soFar, failures, retryLog, waited, container>>

\* what the connection provider's factory of registration c passes on
FactoryArguments(c) ==
  IF registration[c].kind = "forRoot"
  THEN forRoot(registration[c].options)
  ELSE forRootAsyncFactory(connectionName[c], moduleOptions[c][1])

\* the host invokes the connection provider's factory
ConnectionFactory(c, createThrows) ==
  /\ appPhase = "bootstrap"
  /\ phase[c] = "optionsReady"
  /\ createClickHouseClient(c, FactoryArguments(c).clientOptions,
                            FactoryArguments(c).retryOptions, createThrows)
  /\ UNCHANGED <<registration, connectionName, asyncProviders, moduleOptions,
                 policyUsed, shutdownVars, tokenVars>>

\* variant: one error counter shared by every registration
SharedErrorCount(c) ==
  LET RECURSIVE Sum(_)
      Sum(S) == IF S = {} THEN 0
                ELSE LET d == CHOOSE d \in S : TRUE IN soFar[d] + Sum(S \ {d})
  IN Sum(Conns)

\* soFar of retry(): a counter local to the subscription of registration c
ErrorCount(c) == soFar[c]

\* client.ping() settles.  Success resolves the factory with the client, which
\* the host stores under the connection token.  An unsuccessful result or a
\* rejection is an error of the deferred observable, handled by retry().
PingSettles(c, result) ==
  /\ appPhase = "bootstrap"
  /\ phase[c] = "pinging"
  /\ IF result = "success"
     THEN /\ phase' = [phase EXCEPT ![c] = "resolved"]
          /\ container' = container \cup {[token |-> connectionName[c], client |-> c]}
          /\ UNCHANGED <<soFar, failures, retryLog, fault>>
     ELSE /\ failures' = [failures EXCEPT ![c] = @ + 1]
          /\ soFar' = [soFar EXCEPT ![c] = IF retry[c][1].retryAttempts > 0
                                           THEN @ + 1 ELSE @]
          /\ IF ShouldRetry(retry[c][1], ErrorCount(c))
             THEN /\ retryLog' = [retryLog EXCEPT ![c] =
                        Append(@, RetryLogLine(retry[c][1], ProbeMessage, ErrorCount(c) + 1))]
                  /\ phase' = [phase EXCEPT ![c] = "waiting"]
                  /\ UNCHANGED fault
             ELSE /\ phase' = [phase EXCEPT ![c] = "rejected"]
                  /\ fault' = [fault EXCEPT ![c] = <<ProbeMessage>>]
                  /\ UNCHANGED retryLog
          /\ UNCHANGED container
  /\ UNCHANGED <<registration, connectionName, asyncProviders, moduleOptions,
                 policyUsed, createClientCalls, retry, pings, waited, shutdownVars, tokenVars>>

\* timer(retryDelay) fires: retry() re-subscribes and the probe is issued again
TimerFires(c) ==
  /\ appPhase = "bootstrap"
  /\ phase[c] = "waiting"
  /\ waited' = [waited EXCEPT ![c] = Append(@, retry[c][1].retryDelay)]
  /\ pings' = [pings EXCEPT ![c] = @ + 1]
  /\ phase' = [phase EXCEPT ![c] = "pinging"]
  /\ UNCHANGED <<registration, connectionName, asyncProviders, moduleOptions,
                 policyUsed, createClientCalls, retry, soFar, failures, retryLog,
                 fault, container, shutdownVars, tokenVars>>

(***************************************************************************)
(* Actions: shutdown                                                       *)
(***************************************************************************)
\* moduleRef.get(token, { strict: false }): the optional instance
ModuleRefGet(token) ==
  IF \E e \in container : e.token = token
  THEN <<(CHOOSE e \in container : e.token = token).client>>
  ELSE <<>>

\* The application begins to shut down.  The host runs the shutdown hooks once
\* every provider factory has settled; registrations whose factory failed are
\* included so that the hook's guard on a missing client is exercised.
BeginShutdown ==
  /\ appPhase = "bootstrap"
  /\ \E c \in Conns : phase[c] # "unregistered"
  /\ \A c \in Conns : phase[c] \in Settled \cup {"unregistered"}
  /\ appPhase' = "shutdown"
  /\ UNCHANGED <<connVars, retryVars, hook, closeCalls, closeFailed, shutdownLog,
                 tokenVars>>

\* variant: close() is called without the guard on a missing client
onApplicationShutdownUnguarded(c, closeThrows) ==
  /\ appPhase = "shutdown"
  /\ phase[c] # "unregistered"
  /\ hook[c] = "notRun"
  /\ LET client == ModuleRefGet(connectionName[c]) IN
     IF Len(client) > 0
     THEN /\ shutdownLog' = Append(shutdownLog,
               "Closing ClickHouse connection (" \o connectionName[c] \o ")")
          /\ closeCalls' = [closeCalls EXCEPT ![client[1]] = @ + 1]
          /\ closeFailed' = [closeFailed EXCEPT ![client[1]] = @ \/ closeThrows]
          /\ hook' = [hook EXCEPT ![c] = IF closeThrows THEN "rejected" ELSE "resolved"]
     ELSE /\ shutdownLog' = Append(shutdownLog,
               "Closing ClickHouse connection (" \o connectionName[c] \o ")")
          /\ hook' = [hook EXCEPT ![c] = "rejected"]
          /\ UNCHANGED <<closeCalls, closeFailed>>
  /\ UNCHANGED <<connVars, retryVars, appPhase, tokenVars>>

\* ClickHouseCoreModule.onApplicationShutdown() of registration c
onApplicationShutdown(c, closeThrows) ==
  /\ appPhase = "shutdown"
  /\ phase[c] # "unregistered"
  /\ hook[c] = "notRun"
  /\ LET client == ModuleRefGet(connectionName[c]) IN
     IF Len(client) > 0
     THEN /\ shutdownLog' = Append(shutdownLog,
               "Closing ClickHouse connection (" \o connectionName[c] \o ")")
          /\ closeCalls' = [closeCalls EXCEPT ![client[1]] = @ + 1]
          /\ closeFailed' = [closeFailed EXCEPT ![client[1]] = @ \/ closeThrows]
          /\ hook' = [hook EXCEPT ![c] = IF closeThrows THEN "rejected" ELSE "resolved"]
     ELSE /\ hook' = [hook EXCEPT ![c] = "resolved"]
          /\ UNCHANGED <<shutdownLog, closeCalls, closeFailed>>
  /\ UNCHANGED <<connVars, retryVars, appPhase, tokenVars>>

(***************************************************************************)
(* Specifications                                                          *)
(***************************************************************************)
\* two registrations of one application, registered statically
Next ==
  \/ \E c \in Conns, o \in LifecycleOptions :
       TokenFree(c, forRoot(o).connectionName) /\ ForRoot(c, o)
  \/ \E c \in Conns, t \in BOOLEAN : ConnectionFactory(c, t)
  \/ \E c \in Conns, r \in PingResults : PingSettles(c, r)
  \/ \E c \in Conns : TimerFires(c)
  \/ BeginShutdown
  \/ \E c \in Conns, t \in BOOLEAN : onApplicationShutdown(c, t)

Spec == Init /\ [][Next]_vars

\* one registration, static or deferred, over every shape of configuration
NextWiring ==
  \/ \E o \in WiringOptions : ForRoot("a", o)
  \/ \E o \in AsyncOptions : ForRootAsync("a", o)
  \/ \E o \in WiringOptions, e \in {"UndefinedDependency", "TypeError"} :
       ResolveModuleOptions("a", o, e)
  \/ \E t \in BOOLEAN : ConnectionFactory("a", t)
  \/ \E r \in PingResults : PingSettles("a", r)
  \/ TimerFires("a")
  \/ BeginShutdown
  \/ \E t \in BOOLEAN : onApplicationShutdown("a", t)

SpecWiring == Init /\ [][NextWiring]_vars

\* getConnectionToken as a pure function, applied to pairs of names
NamePieces == {"Default", "ClickHouseConnection", "logs"}

RECURSIVE NamesOfLen(_)
NamesOfLen(n) ==
  IF n = 0 THEN {""}
  ELSE {p \o rest : p \in NamePieces, rest \in NamesOfLen(n - 1)}

Names == UNION {NamesOfLen(n) : n \in 0..MaxNameLen}

NameArgs == {<<>>} \cup {<<name>> : name \in Names}

InitToken ==
  /\ InitLifecycle
  /\ tokenArgs \in NameArgs \X NameArgs
  /\ tokens = <<>>

ResolveTokens ==
  /\ tokens = <<>>
  /\ tokens' = << getConnectionToken(tokenArgs[1]), getConnectionToken(tokenArgs[2]) >>
  /\ UNCHANGED <<connVars, retryVars, shutdownVars, tokenArgs>>

NextToken == ResolveTokens

SpecToken == InitToken /\ [][NextToken]_vars

(***************************************************************************)
(* Properties                                                              *)
(***************************************************************************)
\* registrations whose retry loop has been set up
Started == {c \in Conns : retry[c] # <<>>}

\* the configured number of retries of a started registration
Attempts(c) == retry[c][1].retryAttempts

\* the client of registration c is held by the host
Held(c) == \E e \in container : e.client = c

\* C1, as stated: a registration with retryAttempts = N >= 1 whose probe failed
\* on every attempt is rejected after exactly N probe attempts in total.
C1_ExactlyNAttempts ==
  \A c \in Started :
    (Attempts(c) >= 1 /\ phase[c] = "rejected") => pings[c] = Attempts(c)

\* C1, amended: with retryAttempts = N >= 1 and a probe that fails on every
\* attempt, the factory makes exactly N + 1 probe attempts (the first one and
\* N retries) and then rejects with the probe's fault; it never resolves with
\* a handle, and never probes more than N + 1 times.
C1_ExhaustionAfterNRetries ==
  \A c \in Started :
    Attempts(c) >= 1 =>
      /\ pings[c] <= Attempts(c) + 1
      /\ (failures[c] = pings[c] => phase[c] # "resolved" /\ ~Held(c))
      /\ (failures[c] = Attempts(c) + 1 <=> phase[c] = "rejected")
      /\ (phase[c] = "rejected" =>
            /\ pings[c] = Attempts(c) + 1
            /\ failures[c] = pings[c]
            /\ fault[c] = <<ProbeMessage>>
            /\ ~Held(c))

C1_Witness ==
  \E c \in Started :
    Attempts(c) = MaxRetryAttempts /\ phase[c] = "rejected" /\ pings[c] = Attempts(c) + 1

\* C2: a probe that fails exactly k times (k < retryAttempts) and then
\* succeeds resolves the factory with the handle after k + 1 attempts, with k
\* retry log lines (the i-th carrying count i) and k waits of retryDelay, one
\* before each re-attempt and none before the first attempt.
C2_RetryThenSuccess ==
  \A c \in Started :
    /\ Len(waited[c]) + 1 = pings[c]
    /\ (phase[c] = "resolved" /\ failures[c] < Attempts(c)) =>
         /\ Held(c)
         /\ pings[c] = failures[c] + 1
         /\ Len(retryLog[c]) = failures[c]
         /\ \A i \in DOMAIN retryLog[c] : retryLog[c][i].errorCount = i
         /\ Len(waited[c]) = failures[c]
         /\ \A i \in DOMAIN waited[c] : waited[c][i] = retry[c][1].retryDelay

C2_Witness ==
  \E c \in Started :
    /\ phase[c] = "resolved"
    /\ failures[c] >= 1
    /\ failures[c] < Attempts(c)
    /\ Len(retryLog[c]) = failures[c]

\* C3, as stated: getConnectionToken maps an omitted name and the default
\* sentinel to the same identifier, every other name to an identifier other
\* than the default one, and distinct other names to distinct identifiers.
IsDefaultName(args) == Len(args) = 0 \/ args[1] = DEFAULT_CONNECTION_NAME

C3_TokensDistinct ==
  tokens # <<>> =>
    /\ \A i \in 1..2 :
         IsDefaultName(tokenArgs[i]) <=> tokens[i] = getConnectionToken(<<>>)
    /\ (/\ ~IsDefaultName(tokenArgs[1])
        /\ ~IsDefaultName(tokenArgs[2])
        /\ tokenArgs[1] # tokenArgs[2]) => tokens[1] # tokens[2]

\* C4: close is called on a registration's handle exactly once when its
\* shutdown hook runs and the handle was created; a hook whose handle was never
\* created calls no close and raises no fault; nothing is closed before
\* shutdown.
C4_CloseExactlyOnceAtShutdown ==
  \A c \in Conns :
    /\ closeCalls[c] <= 1
    /\ appPhase = "bootstrap" => closeCalls[c] = 0
    /\ (hook[c] # "notRun" /\ phase[c] = "resolved") => closeCalls[c] = 1
    /\ phase[c] # "resolved" => (closeCalls[c] = 0 /\ hook[c] # "rejected")
    /\ closeCalls[c] = 1 => (hook[c] # "notRun" /\ Held(c))

C4_Witness ==
  \E c, d \in Conns :
    /\ hook[c] = "resolved" /\ phase[c] = "resolved" /\ closeCalls[c] = 1
    /\ hook[d] = "resolved" /\ phase[d] = "rejected" /\ closeCalls[d] = 0

\* C5, as stated: a close() that fails during shutdown is not propagated out of
\* onApplicationShutdown: no shutdown hook rejects.
C5_CloseFaultContained ==
  \A c \in Conns : closeFailed[c] => hook[c] = "resolved"

\* the retry configuration registration c will run with, once its options
\* are known
Configured == {c \in Conns : phase[c] \notin {"unregistered", "registered", "wiringFault"}}

\* C6, as stated: a fault thrown by createClient is retried like a failed
\* probe: with retries configured it surfaces only after it was logged and
\* construction was attempted again.
C6_ConstructFaultRetried ==
  \A c \in Configured :
    (/\ phase[c] = "constructFault"
     /\ handleRetry(FactoryArguments(c).retryOptions).retryAttempts >= 1) =>
      /\ Len(retryLog[c]) >= 1
      /\ Len(createClientCalls[c]) > 1

\* C6, amended: a fault thrown by createClient is not retried; it surfaces to
\* the caller at once, after a single construction, with no log line, no delay
\* and no probe.  The client is constructed once per registration and only
\* failed probes are retried.
C6_ConstructFaultSurfacesAtOnce ==
  \A c \in Conns :
    /\ Len(createClientCalls[c]) <= 1
    /\ (Len(createClientCalls[c]) = 1 /\ pings[c] = 0) =>
         /\ phase[c] = "constructFault"
         /\ fault[c] = <<"createClient threw">>
         /\ retryLog[c] = <<>>
         /\ waited[c] = <<>>
         /\ ~Held(c)
    /\ phase[c] = "constructFault" => (Len(createClientCalls[c]) = 1 /\ pings[c] = 0)

C6_Witness ==
  \E c \in Configured :
    /\ phase[c] = "constructFault"
    /\ handleRetry(FactoryArguments(c).retryOptions).retryAttempts >= 1
    /\ Len(createClientCalls[c]) = 1

\* the configuration a registration resolved: the options given to forRoot,
\* or the CLICKHOUSE_MODULE_OPTIONS produced for forRootAsync
ResolvedConfiguration(c) ==
  IF registration[c].kind = "forRoot" THEN registration[c].options ELSE moduleOptions[c][1]

\* C7, as stated: the object given to createClient holds none of name,
\* retryAttempts, retryDelay, verboseRetryLog and every other field of the
\* resolved configuration unchanged, for forRoot and for forRootAsync.
C7_OrchestrationFieldsStripped ==
  \A c \in Conns :
    \A i \in DOMAIN createClientCalls[c] :
      /\ DOMAIN createClientCalls[c][i] \cap OrchestrationFields = {}
      /\ createClientCalls[c][i] = Rest(ResolvedConfiguration(c), OrchestrationFields)

\* C8: a deferred registration resolves its configuration through exactly one
\* policy (the direct function, or createClickHouseOptions of a delegate), and
\* with none of useFactory, useExisting, useClass the registration ends in a
\* wiring fault before any client is constructed or probed.
NoPolicyGiven(c) ==
  /\ registration[c].kind = "forRootAsync"
  /\ DOMAIN registration[c].options \cap {"useFactory", "useExisting", "useClass"} = {}

C8_OnePolicyOrWiringFault ==
  \A c \in Conns :
    registration[c].kind = "forRootAsync" =>
      /\ Cardinality(OptionsProviders(asyncProviders[c])) = 1
      /\ Cardinality(policyUsed[c]) <= 1
      /\ policyUsed[c] \subseteq
           {IF "useFactory" \in DOMAIN registration[c].options
            THEN "useFactory" ELSE "delegate"}
      /\ moduleOptions[c] # <<>> => Cardinality(policyUsed[c]) = 1
      /\ NoPolicyGiven(c) =>
           /\ phase[c] \in {"registered", "wiringFault"}
           /\ moduleOptions[c] = <<>>
           /\ createClientCalls[c] = <<>>
           /\ pings[c] = 0
      /\ (~NoPolicyGiven(c)) => phase[c] # "wiringFault"

C8_Witness ==
  \E c \in Conns :
    NoPolicyGiven(c) /\ phase[c] = "wiringFault" /\ fault[c] # <<>>

\* C9: registrations that run interleaved keep separate retry state: the
\* attempts, waits, log lines and outcome of each are determined by its own
\* probe results and its own configuration.
C9_IndependentRetryState ==
  \A c \in Started :
    LET k == failures[c]
        n == Attempts(c)
        retried == IF k <= n THEN k ELSE n
    IN /\ phase[c] \in {"pinging", "waiting", "resolved", "rejected"}
       /\ phase[c] = "resolved" => (k <= n /\ pings[c] = k + 1)
       /\ phase[c] = "rejected" => (k = n + 1 /\ pings[c] = n + 1)
       /\ phase[c] = "waiting" => (k <= n /\ pings[c] = k)
       /\ phase[c] = "pinging" => (k <= n /\ pings[c] = k + 1)
       /\ Len(retryLog[c]) = retried
       /\ Len(waited[c]) = IF phase[c] = "waiting" THEN retried - 1 ELSE retried
       /\ \A i \in DOMAIN waited[c] : waited[c][i] = retry[c][1].retryDelay
       /\ \A i \in DOMAIN retryLog[c] : retryLog[c][i].errorCount = i

C9_Witness ==
  \E c, d \in Started :
    /\ c # d
    /\ phase[c] = "rejected" /\ Attempts(c) = MaxRetryAttempts
    /\ phase[d] = "resolved" /\ failures[d] = 1 /\ Attempts(d) = 1
    /\ retry[c][1].retryDelay # retry[d][1].retryDelay

\* C10: a configuration that omits retryAttempts, retryDelay or
\* verboseRetryLog runs the retry loop with 10, 3000 and non-verbose logging
\* for the omitted fields and with the supplied value for the others, for
\* forRoot and for forRootAsync.
C10_DefaultsApplied ==
  \A c \in Started :
    LET cfg == ResolvedConfiguration(c)
        attempts == IF "retryAttempts" \in DOMAIN cfg THEN cfg.retryAttempts ELSE 10
        delay == IF "retryDelay" \in DOMAIN cfg THEN cfg.retryDelay ELSE 3000
        verbose == IF "verboseRetryLog" \in DOMAIN cfg THEN cfg.verboseRetryLog ELSE FALSE
    IN /\ retry[c][1].retryAttempts = attempts
       /\ retry[c][1].retryDelay = delay
       /\ retry[c][1].verboseRetryLog = verbose
       /\ Len(retryLog[c]) <= attempts
       /\ phase[c] = "rejected" => Len(retryLog[c]) = attempts
       /\ \A i \in DOMAIN waited[c] : waited[c][i] = delay
       /\ \A i \in DOMAIN retryLog[c] : (retryLog[c][i].verboseMessage # "") <=> verbose

C10_Witness ==
  \E c \in Started :
    /\ registration[c].kind = "forRootAsync"
    /\ DOMAIN ResolvedConfiguration(c) \cap RetryFields = {}
    /\ phase[c] = "rejected"
    /\ Len(retryLog[c]) = 10
    /\ Len(waited[c]) = 10

====
